---- MODULE Spec2Model ----
(***************************************************************************)
(* Model of lindera-ipadic/src/embedded.rs: the embedded IPADIC dictionary *)
(* loader.  Seven artifacts are embedded in the binary, each either raw or *)
(* wrapped in a compressed container; load() resolves them through         *)
(* process-wide once_cell Lazy cells, load_temporary() resolves them fresh *)
(* on every call with decompress_embedded_data.                            *)
(*                                                                         *)
(* Byte sequences are sequences of naturals.  The crates the file calls    *)
(* into (rkyv::from_bytes, lindera_dictionary::decompress and the five     *)
(* component parsers) are modelled from the specification.                 *)
(***************************************************************************)
EXTENDS Naturals, Sequences, FiniteSets, TLC

\* ------------------------------------------------------------- bounds
\* Longest raw byte sequence enumerated as a resolver input.
MaxLen == 4
\* Largest byte value enumerated in resolver inputs.
MaxByte == 3
\* Number of threads calling into the loader.
NThreads == 2
\* Calls made in one run, over all threads.
MaxCalls == 3

Byte == 0..MaxByte
ByteSeqs == UNION {[1..k -> Byte] : k \in 0..MaxLen}
Threads == 1..NThreads

\* ------------------------------------------- compressed container format
\* First word of a serialized CompressedData record.
ContainerTag == 3

\* Length of the run of equal bytes p starts with.
RECURSIVE RunLen(_)
RunLen(p) ==
    IF Len(p) <= 1 THEN Len(p)
    ELSE IF p[2] = p[1] THEN 1 + RunLen(Tail(p)) ELSE 1

\* The compressor: run-length pairs <<count, byte>>.
RECURSIVE Encode(_)
Encode(p) ==
    IF p = <<>> THEN <<>>
    ELSE LET n == RunLen(p)
         IN  <<n, p[1]>> \o Encode(SubSeq(p, n + 1, Len(p)))

\* A payload wrapped in a serialized container: tag, payload length, payload.
Wrap(p) == <<ContainerTag, Len(Encode(p))>> \o Encode(p)

\* rkyv::from_bytes::<CompressedData, _>: validates the record and yields it.
from_bytes(b) ==
    IF Len(b) >= 2 /\ b[1] = ContainerTag /\ b[2] = Len(b) - 2
    THEN [ok |-> TRUE, data |-> SubSeq(b, 3, Len(b))]
    ELSE [ok |-> FALSE, data |-> <<>>]

RECURSIVE Expand(_)
Expand(d) ==
    IF d = <<>> THEN <<>>
    ELSE [i \in 1..d[1] |-> d[2]] \o Expand(SubSeq(d, 3, Len(d)))

\* lindera_dictionary::decompress::decompress: fails on a corrupt stream.
decompress(c) ==
    IF Len(c.data) % 2 = 0 /\ \A i \in 1..Len(c.data) : i % 2 = 1 => c.data[i] >= 1
    THEN [ok |-> TRUE, val |-> Expand(c.data)]
    ELSE [ok |-> FALSE, val |-> <<>>]

\* ------------------------------------------------------------ resolvers
\* Faulty variant: the initializer stores the embedded bytes undecoded.
DecompressDataRaw(bytes) == bytes

\* Faulty variant: a failed decompression yields the undecoded payload.
DecompressDataPayloadOnFailure(bytes) ==
    LET r == from_bytes(bytes) IN
    IF r.ok
    THEN LET d == decompress(r) IN IF d.ok THEN d.val ELSE r.data
    ELSE bytes

\* Faulty variant: a failed decompression yields an empty vector.
DecompressDataEmptyOnFailure(bytes) ==
    LET r == from_bytes(bytes) IN
    IF r.ok
    THEN LET d == decompress(r) IN IF d.ok THEN d.val ELSE <<>>
    ELSE bytes

\* The initializer closure of a cached cell (decompress_data!, compress on).
decompress_data(bytes) ==
    LET r == from_bytes(bytes) IN
    IF r.ok
    THEN LET d == decompress(r) IN IF d.ok THEN d.val ELSE bytes
    ELSE bytes

\* Faulty variant: never decompresses.
DecompressEmbeddedRaw(bytes) == bytes

\* Faulty variant: an input that is no container yields an empty vector.
DecompressEmbeddedNoFallback(bytes) ==
    LET r == from_bytes(bytes) IN
    IF r.ok
    THEN LET d == decompress(r) IN IF d.ok THEN d.val ELSE bytes
    ELSE <<>>

\* Faulty variant: a failed decompression yields the undecoded payload.
DecompressEmbeddedPayloadOnFailure(bytes) ==
    LET r == from_bytes(bytes) IN
    IF r.ok
    THEN LET d == decompress(r) IN IF d.ok THEN d.val ELSE r.data
    ELSE bytes

\* fn decompress_embedded_data(bytes: &[u8]) -> Vec<u8>
decompress_embedded_data(bytes) ==
    LET r == from_bytes(bytes) IN
    IF r.ok
    THEN LET d == decompress(r) IN IF d.ok THEN d.val ELSE bytes
    ELSE bytes


\* --------------------------------------------------- component parsers
\* A structurally valid record: a length word followed by that many bytes.
Structural(b) == Len(b) >= 1 /\ b[1] = Len(b) - 1

Component(kind, body) == [kind |-> kind, body |-> body]
Unset == Component("unset", <<>>)
ParseOk(c) == [ok |-> TRUE, val |-> c, err |-> "none"]
ParseErr(e) == [ok |-> FALSE, val |-> Unset, err |-> e]

\* Metadata::load
MetadataLoad(b) ==
    IF Structural(b) THEN ParseOk(Component("metadata", Tail(b)))
    ELSE ParseErr("MetadataParseError")

\* CharacterDefinition::load
CharacterDefinitionLoad(b) ==
    IF Structural(b) THEN ParseOk(Component("character_definition", Tail(b)))
    ELSE ParseErr("CharacterDefinitionParseError")

\* UnknownDictionary::load
UnknownDictionaryLoad(b) ==
    IF Structural(b) THEN ParseOk(Component("unknown_dictionary", Tail(b)))
    ELSE ParseErr("UnknownDictionaryParseError")

\* PrefixDictionary::load(da, vals, words_idx, words, true): no validation.
PrefixDictionaryLoad(da, vals, wordsidx, words) ==
    Component("prefix_dictionary", <<da, vals, wordsidx, words>>)

\* ConnectionCostMatrix::load: reinterprets the bytes, no validation.
ConnectionCostMatrixLoad(b) == Component("connection_cost_matrix", b)

\* LinderaResult<Dictionary>
NoParts ==
    [prefix_dictionary |-> Unset, connection_cost_matrix |-> Unset,
     character_definition |-> Unset, unknown_dictionary |-> Unset,
     metadata |-> Unset]
Ok(d) == [ok |-> TRUE, err |-> "none", dict |-> d]
Err(e) == [ok |-> FALSE, err |-> e, dict |-> NoParts]
NoResult == [ok |-> FALSE, err |-> "pending", dict |-> NoParts]

\* ------------------------------------------------------------ artifacts
Artifacts ==
    {"CHAR_DEFINITION_DATA", "CONNECTION_DATA", "DA_DATA", "VALS_DATA",
     "UNKNOWN_DATA", "WORDS_IDX_DATA", "WORDS_DATA"}

\* Order in which load() dereferences the cells (struct fields, in order).
LoadOrder ==
    <<"DA_DATA", "VALS_DATA", "WORDS_IDX_DATA", "WORDS_DATA",
      "CONNECTION_DATA", "CHAR_DEFINITION_DATA", "UNKNOWN_DATA">>

\* Order in which load_temporary() resolves the artifacts.
TempOrder ==
    <<"CHAR_DEFINITION_DATA", "CONNECTION_DATA", "DA_DATA", "VALS_DATA",
      "WORDS_IDX_DATA", "WORDS_DATA", "UNKNOWN_DATA">>

NoBytes == [a \in Artifacts |-> <<>>]

\* ---------------------------------------------------------------- state
VARIABLES
    compress,      \* feature "compress" of the build
    embed,         \* feature "embed-ipadic" of the build
    files,         \* the artifact files under LINDERA_WORKDIR
    metaFile,      \* metadata.json under LINDERA_WORKDIR
    cell,          \* the seven static Lazy cells
    op,            \* per thread: the call it is in
    pc,            \* per thread: position in that call
    loc,           \* per thread: artifact bytes the call holds
    parts,         \* per thread: components evaluated so far
    result,        \* per thread: what its last call returned
    trace,         \* per thread: steps of the current (or last) call
    cold,          \* per thread: its call is a load() begun with every cell empty
    nLoad,         \* load() calls started
    nTemp,         \* load_temporary() calls started
    tempResolves,  \* runs of decompress_embedded_data
    loadResults,   \* every value load() has returned
    tempResults,   \* every value load_temporary() has returned
    input,         \* resolver harness: the bytes handed to the resolvers
    cellOut,       \* resolver harness: what the cell initializer produced
    fnOut,         \* resolver harness: what decompress_embedded_data produced
    payload,       \* resolver harness: the sequence the input was made from
    wrapped,       \* resolver harness: the input is the payload in a container
    ran            \* resolver harness: which resolvers have run

config == <<compress, embed, files, metaFile>>
threadVars == <<op, pc, loc, parts, result, trace, cold>>
ghostVars == <<nLoad, nTemp, tempResolves, loadResults, tempResults>>
harnessVars == <<input, cellOut, fnOut, payload, wrapped, ran>>
vars == <<config, cell, threadVars, ghostVars, harnessVars>>

\* ------------------------------------------------------ embedded inputs
Idx(a) == CHOOSE i \in 1..7 : LoadOrder[i] = a

\* The encodings an artifact file is drawn from.
Blob(a, kind) ==
    CASE kind = "raw"     -> <<1, Idx(a)>>
      [] kind = "wrapped" -> Wrap(<<1, Idx(a)>>)
      [] kind = "bad"     -> <<2, Idx(a)>>
      [] kind = "corrupt" -> <<ContainerTag, 2, 0, Idx(a)>>

BaseKind(a) == IF Idx(a) % 2 = 1 THEN "wrapped" ELSE "raw"
\* Single faults: a corrupt container in an unvalidated artifact, and a
\* corrupt container or an invalid raw record in a validated one.
Faults ==
    {<<"DA_DATA", "corrupt">>, <<"CONNECTION_DATA", "corrupt">>,
     <<"CHAR_DEFINITION_DATA", "corrupt">>,
     <<"UNKNOWN_DATA", "bad">>, <<"UNKNOWN_DATA", "corrupt">>}
FileSets ==
    {[a \in Artifacts |-> Blob(a, BaseKind(a))]}
    \cup {[a \in Artifacts |-> Blob(a, IF a = f[1] THEN f[2] ELSE BaseKind(a))] :
             f \in Faults}
    \cup {[a \in Artifacts |->
              Blob(a, IF a \in {"CHAR_DEFINITION_DATA", "UNKNOWN_DATA"}
                      THEN "bad" ELSE BaseKind(a))]}
MetaFiles == {<<1, 0>>, <<2>>}

\* ipadic_data!: the bytes a cell is built from.
EmbeddedBytes(a) == IF embed THEN files[a] ELSE <<>>
\* Faulty variant: the metadata is embedded whatever the feature says.
MetadataAlwaysEmbedded == metaFile

\* ipadic_metadata!
METADATA_DATA == IF embed THEN metaFile ELSE <<>>
\* include_bytes! in load_temporary
IncludedBytes(a) == files[a]

UninitCell == [state |-> "uninit", owner |-> 0, value |-> <<>>, count |-> 0]

LoaderIdle ==
    /\ cell = [a \in Artifacts |-> UninitCell]
    /\ op = [t \in Threads |-> "none"]
    /\ pc = [t \in Threads |-> 0]
    /\ loc = [t \in Threads |-> NoBytes]
    /\ parts = [t \in Threads |-> NoParts]
    /\ result = [t \in Threads |-> NoResult]
    /\ trace = [t \in Threads |-> <<>>]
    /\ cold = [t \in Threads |-> FALSE]
    /\ nLoad = 0
    /\ nTemp = 0
    /\ tempResolves = 0
    /\ loadResults = {}
    /\ tempResults = {}

HarnessIdle ==
    /\ input = <<>>
    /\ payload = <<>>
    /\ wrapped = FALSE
    /\ cellOut = <<>>
    /\ fnOut = <<>>
    /\ ran = {}

Init ==
    /\ compress \in BOOLEAN
    /\ embed \in BOOLEAN
    /\ files \in FileSets
    /\ metaFile \in MetaFiles
    /\ LoaderIdle
    /\ HarnessIdle

\* ------------------------------------------------------ call and return
CallLoad(t) ==
    /\ op[t] = "none"
    /\ nLoad + nTemp < MaxCalls
    /\ op' = [op EXCEPT ![t] = "load"]
    /\ pc' = [pc EXCEPT ![t] = 0]
    /\ result' = [result EXCEPT ![t] = NoResult]
    /\ trace' = [trace EXCEPT ![t] = <<>>]
    /\ cold' = [cold EXCEPT ![t] = \A a \in Artifacts : cell[a].state = "uninit"]
    /\ nLoad' = nLoad + 1
    /\ UNCHANGED <<config, cell, loc, parts, nTemp, tempResolves,
                   loadResults, tempResults, harnessVars>>

CallLoadTemporary(t) ==
    /\ op[t] = "none"
    /\ nLoad + nTemp < MaxCalls
    /\ op' = [op EXCEPT ![t] = "load_temporary"]
    /\ pc' = [pc EXCEPT ![t] = 0]
    /\ result' = [result EXCEPT ![t] = NoResult]
    /\ trace' = [trace EXCEPT ![t] = <<>>]
    /\ cold' = [cold EXCEPT ![t] = FALSE]
    /\ nTemp' = nTemp + 1
    /\ UNCHANGED <<config, cell, loc, parts, nLoad, tempResolves,
                   loadResults, tempResults, harnessVars>>

\* The call of thread t returns r to its caller; its locals are dropped.
Return(t, r, tr) ==
    /\ result' = [result EXCEPT ![t] = r]
    /\ op' = [op EXCEPT ![t] = "none"]
    /\ pc' = [pc EXCEPT ![t] = 0]
    /\ loc' = [loc EXCEPT ![t] = NoBytes]
    /\ parts' = [parts EXCEPT ![t] = NoParts]
    /\ trace' = [trace EXCEPT ![t] = tr]
    /\ loadResults' = IF op[t] = "load" THEN loadResults \cup {r} ELSE loadResults
    /\ tempResults' =
           IF op[t] = "load_temporary" THEN tempResults \cup {r} ELSE tempResults
    /\ UNCHANGED cold

\* The call of thread t goes on to its next position.
Continue(t, k, l, p, tr) ==
    /\ pc' = [pc EXCEPT ![t] = k]
    /\ loc' = [loc EXCEPT ![t] = l]
    /\ parts' = [parts EXCEPT ![t] = p]
    /\ trace' = [trace EXCEPT ![t] = tr]
    /\ UNCHANGED <<op, result, cold, loadResults, tempResults>>

\* Faulty variant: a metadata failure does not end the call.
ParseMetadataDeferred(t, next) ==
    LET m == MetadataLoad(METADATA_DATA)
    IN  Continue(t, next, loc[t], [parts[t] EXCEPT !.metadata = m.val],
                 Append(trace[t], <<"parse", "metadata">>))

\* let metadata = Metadata::load(METADATA_DATA)?;
ParseMetadata(t, next) ==
    LET m == MetadataLoad(METADATA_DATA)
        tr == Append(trace[t], <<"parse", "metadata">>)
    IN  IF m.ok
        THEN Continue(t, next, loc[t], [parts[t] EXCEPT !.metadata = m.val], tr)
        ELSE Return(t, Err(m.err), tr)

\* Faulty variant: the unknown dictionary is parsed before the character
\* definition.
AssembleUnknownFirst(t, l) ==
    LET pd == PrefixDictionaryLoad(l["DA_DATA"], l["VALS_DATA"],
                                   l["WORDS_IDX_DATA"], l["WORDS_DATA"])
        cm == ConnectionCostMatrixLoad(l["CONNECTION_DATA"])
        cd == CharacterDefinitionLoad(l["CHAR_DEFINITION_DATA"])
        ud == UnknownDictionaryLoad(l["UNKNOWN_DATA"])
        tr == trace[t] \o <<<<"parse", "prefix_dictionary">>,
                            <<"parse", "connection_cost_matrix">>,
                            <<"parse", "unknown_dictionary">>,
                            <<"parse", "character_definition">>>>
    IN  IF ~ud.ok THEN Return(t, Err(ud.err), tr)
        ELSE IF ~cd.ok THEN Return(t, Err(cd.err), tr)
        ELSE Return(t, Ok([prefix_dictionary |-> pd,
                           connection_cost_matrix |-> cm,
                           character_definition |-> cd.val,
                           unknown_dictionary |-> ud.val,
                           metadata |-> parts[t].metadata]), tr)

\* The struct expression Ok(Dictionary { .. }) over bytes already at hand:
\* the fields are evaluated in order, and `?` returns the first error.
Assemble(t, l) ==
    LET pd == PrefixDictionaryLoad(l["DA_DATA"], l["VALS_DATA"],
                                   l["WORDS_IDX_DATA"], l["WORDS_DATA"])
        cm == ConnectionCostMatrixLoad(l["CONNECTION_DATA"])
        cd == CharacterDefinitionLoad(l["CHAR_DEFINITION_DATA"])
        ud == UnknownDictionaryLoad(l["UNKNOWN_DATA"])
        tr3 == trace[t] \o <<<<"parse", "prefix_dictionary">>,
                             <<"parse", "connection_cost_matrix">>,
                             <<"parse", "character_definition">>>>
        tr4 == Append(tr3, <<"parse", "unknown_dictionary">>)
    IN  IF ~cd.ok THEN Return(t, Err(cd.err), tr3)
        ELSE IF ~ud.ok THEN Return(t, Err(ud.err), tr4)
        ELSE Return(t, Ok([prefix_dictionary |-> pd,
                           connection_cost_matrix |-> cm,
                           character_definition |-> cd.val,
                           unknown_dictionary |-> ud.val,
                           metadata |-> parts[t].metadata]), tr4)

\* ------------------------------------------------------------- load()
LoadMetadata(t) ==
    /\ op[t] = "load"
    /\ pc[t] = 0
    /\ ParseMetadata(t, IF compress THEN 1 ELSE 8)
    /\ UNCHANGED <<config, cell, nLoad, nTemp, tempResolves, harnessVars>>

\* Faulty variant: every field is evaluated before an error is returned.
LoadTakeEager(t, v) ==
    LET k == pc[t]
        a == LoadOrder[k]
        l == [loc[t] EXCEPT ![a] = v]
        tr == Append(trace[t], <<"bytes", a>>)
        p == parts[t]
    IN  CASE k \in {1, 2, 3} -> Continue(t, k + 1, l, p, tr)
          [] k = 4 ->
                Continue(t, 5, l,
                    [p EXCEPT !.prefix_dictionary =
                        PrefixDictionaryLoad(l["DA_DATA"], l["VALS_DATA"],
                                             l["WORDS_IDX_DATA"], l["WORDS_DATA"])],
                    Append(tr, <<"parse", "prefix_dictionary">>))
          [] k = 5 ->
                Continue(t, 6, l,
                    [p EXCEPT !.connection_cost_matrix = ConnectionCostMatrixLoad(v)],
                    Append(tr, <<"parse", "connection_cost_matrix">>))
          [] k = 6 ->
                LET cd == CharacterDefinitionLoad(v)
                    tr6 == Append(tr, <<"parse", "character_definition">>)
                IN  Continue(t, 7, l, [p EXCEPT !.character_definition = cd.val], tr6)
          [] k = 7 ->
                LET ud == UnknownDictionaryLoad(v)
                    tr7 == Append(tr, <<"parse", "unknown_dictionary">>)
                IN  IF p.character_definition = Unset
                    THEN Return(t, Err("CharacterDefinitionParseError"), tr7)
                    ELSE IF ud.ok
                    THEN Return(t, Ok([p EXCEPT !.unknown_dictionary = ud.val]), tr7)
                    ELSE Return(t, Err(ud.err), tr7)

\* load() has dereferenced the cell at its position and holds bytes v: it
\* evaluates the field expressions up to the next cell, or returns.
LoadTake(t, v) ==
    LET k == pc[t]
        a == LoadOrder[k]
        l == [loc[t] EXCEPT ![a] = v]
        tr == Append(trace[t], <<"bytes", a>>)
        p == parts[t]
    IN  CASE k \in {1, 2, 3} -> Continue(t, k + 1, l, p, tr)
          [] k = 4 ->
                Continue(t, 5, l,
                    [p EXCEPT !.prefix_dictionary =
                        PrefixDictionaryLoad(l["DA_DATA"], l["VALS_DATA"],
                                             l["WORDS_IDX_DATA"], l["WORDS_DATA"])],
                    Append(tr, <<"parse", "prefix_dictionary">>))
          [] k = 5 ->
                Continue(t, 6, l,
                    [p EXCEPT !.connection_cost_matrix = ConnectionCostMatrixLoad(v)],
                    Append(tr, <<"parse", "connection_cost_matrix">>))
          [] k = 6 ->
                LET cd == CharacterDefinitionLoad(v)
                    tr6 == Append(tr, <<"parse", "character_definition">>)
                IN  IF cd.ok
                    THEN Continue(t, 7, l, [p EXCEPT !.character_definition = cd.val], tr6)
                    ELSE Return(t, Err(cd.err), tr6)
          [] k = 7 ->
                LET ud == UnknownDictionaryLoad(v)
                    tr7 == Append(tr, <<"parse", "unknown_dictionary">>)
                IN  IF ud.ok
                    THEN Return(t, Ok([p EXCEPT !.unknown_dictionary = ud.val]), tr7)
                    ELSE Return(t, Err(ud.err), tr7)

AtCell(t) == compress /\ op[t] = "load" /\ pc[t] \in 1..7

\* Faulty variant: a read-check-write cell, started again while it runs.
LazyStartRacy(t) ==
    /\ AtCell(t)
    /\ cell[LoadOrder[pc[t]]].state # "done"
    /\ cell[LoadOrder[pc[t]]].owner # t
    /\ cell' = [cell EXCEPT ![LoadOrder[pc[t]]] =
                   [@ EXCEPT !.state = "running", !.owner = t, !.count = @ + 1]]
    /\ UNCHANGED <<config, threadVars, ghostVars, harnessVars>>

\* Lazy::force on an empty cell: this thread takes the cell's
\* initialization and starts running the closure.
LazyStart(t) ==
    /\ AtCell(t)
    /\ cell[LoadOrder[pc[t]]].state = "uninit"
    /\ cell' = [cell EXCEPT ![LoadOrder[pc[t]]] =
                   [@ EXCEPT !.state = "running", !.owner = t, !.count = @ + 1]]
    /\ UNCHANGED <<config, threadVars, ghostVars, harnessVars>>

\* Faulty variant: the initializer's thread goes on with the bytes but the
\* cell is never marked initialized, so waiting threads are not released.
LazyFinishNoWake(t) ==
    /\ AtCell(t)
    /\ cell[LoadOrder[pc[t]]].state = "running"
    /\ cell[LoadOrder[pc[t]]].owner = t
    /\ LET a == LoadOrder[pc[t]]
           v == decompress_data(EmbeddedBytes(a))
       IN  /\ cell' = [cell EXCEPT ![a] = [@ EXCEPT !.owner = 0, !.value = v]]
           /\ LoadTake(t, v)
    /\ UNCHANGED <<config, nLoad, nTemp, tempResolves, harnessVars>>

\* The closure returns: the cell stores the resolved bytes, and the thread
\* goes on with a reference to them.
LazyFinish(t) ==
    /\ AtCell(t)
    /\ cell[LoadOrder[pc[t]]].state = "running"
    /\ cell[LoadOrder[pc[t]]].owner = t
    /\ LET a == LoadOrder[pc[t]]
           v == decompress_data(EmbeddedBytes(a))
       IN  /\ cell' = [cell EXCEPT ![a] =
                          [@ EXCEPT !.state = "done", !.owner = 0, !.value = v]]
           /\ LoadTake(t, v)
    /\ UNCHANGED <<config, nLoad, nTemp, tempResolves, harnessVars>>

\* Faulty variant: no memoization, every access runs the initializer.
LazyGetRecompute(t) ==
    /\ AtCell(t)
    /\ cell[LoadOrder[pc[t]]].state = "done"
    /\ LET a == LoadOrder[pc[t]]
           v == decompress_data(EmbeddedBytes(a))
       IN  /\ cell' = [cell EXCEPT ![a] = [@ EXCEPT !.value = v, !.count = @ + 1]]
           /\ LoadTake(t, v)
    /\ UNCHANGED <<config, nLoad, nTemp, tempResolves, harnessVars>>

\* Lazy::force on an initialized cell: a reference to the stored bytes.  A
\* thread that finds the cell running waits until it is initialized.
LazyGet(t) ==
    /\ AtCell(t)
    /\ cell[LoadOrder[pc[t]]].state = "done"
    /\ LoadTake(t, cell[LoadOrder[pc[t]]].value)
    /\ UNCHANGED <<config, cell, nLoad, nTemp, tempResolves, harnessVars>>

\* Without the compress feature the seven names are consts: load()
\* evaluates the struct expression over the embedded bytes themselves.
LoadConst(t) ==
    /\ ~compress
    /\ op[t] = "load"
    /\ pc[t] = 8
    /\ Assemble(t, [a \in Artifacts |-> EmbeddedBytes(a)])
    /\ UNCHANGED <<config, cell, nLoad, nTemp, tempResolves, harnessVars>>

\* --------------------------------------------------- load_temporary()
TempMetadata(t) ==
    /\ op[t] = "load_temporary"
    /\ pc[t] = 0
    /\ ParseMetadata(t, IF compress THEN 1 ELSE 8)
    /\ UNCHANGED <<config, cell, nLoad, nTemp, tempResolves, harnessVars>>

\* Faulty variant: load_temporary() fills and reuses the cached cells.
TempResolveShared(t) ==
    /\ compress
    /\ op[t] = "load_temporary"
    /\ pc[t] \in 1..7
    /\ LET a == TempOrder[pc[t]]
           v == IF cell[a].state = "done" THEN cell[a].value
                ELSE decompress_embedded_data(IncludedBytes(a))
       IN  /\ Continue(t, pc[t] + 1, [loc[t] EXCEPT ![a] = v],
                       parts[t], Append(trace[t], <<"bytes", a>>))
           /\ cell' = IF cell[a].state = "uninit"
                      THEN [cell EXCEPT ![a] =
                               [@ EXCEPT !.state = "done", !.value = v, !.count = 1]]
                      ELSE cell
    /\ tempResolves' = tempResolves + 1
    /\ UNCHANGED <<config, nLoad, nTemp, harnessVars>>

\* Faulty variant: load_temporary() takes a cell's bytes when the cell is
\* initialized instead of resolving again.
TempResolveMemoized(t) ==
    /\ compress
    /\ op[t] = "load_temporary"
    /\ pc[t] \in 1..7
    /\ LET a == TempOrder[pc[t]]
           hit == cell[a].state = "done"
           v == IF hit THEN cell[a].value
                ELSE decompress_embedded_data(IncludedBytes(a))
       IN  /\ Continue(t, pc[t] + 1, [loc[t] EXCEPT ![a] = v],
                       parts[t], Append(trace[t], <<"bytes", a>>))
           /\ tempResolves' = IF hit THEN tempResolves ELSE tempResolves + 1
    /\ UNCHANGED <<config, cell, nLoad, nTemp, harnessVars>>

\* let x_data = decompress_embedded_data(x_bytes);
TempResolve(t) ==
    /\ compress
    /\ op[t] = "load_temporary"
    /\ pc[t] \in 1..7
    /\ LET a == TempOrder[pc[t]]
       IN  Continue(t, pc[t] + 1,
                    [loc[t] EXCEPT ![a] = decompress_embedded_data(IncludedBytes(a))],
                    parts[t], Append(trace[t], <<"bytes", a>>))
    /\ tempResolves' = tempResolves + 1
    /\ UNCHANGED <<config, cell, nLoad, nTemp, harnessVars>>

TempAssemble(t) ==
    /\ op[t] = "load_temporary"
    /\ pc[t] = 8
    /\ Assemble(t, IF compress THEN loc[t] ELSE [a \in Artifacts |-> IncludedBytes(a)])
    /\ UNCHANGED <<config, cell, nLoad, nTemp, tempResolves, harnessVars>>

Next ==
    \E t \in Threads :
        \/ CallLoad(t)
        \/ CallLoadTemporary(t)
        \/ LoadMetadata(t)
        \/ LazyStart(t)
        \/ LazyFinish(t)
        \/ LazyGet(t)
        \/ LoadConst(t)
        \/ TempMetadata(t)
        \/ TempResolve(t)
        \/ TempAssemble(t)

Spec == Init /\ [][Next]_vars

\* The steps of the call thread t is in.  Both functions are synchronous
\* code on the caller's thread: a thread that can take a step takes it.
Step(t) ==
    \/ LoadMetadata(t)
    \/ LazyStart(t)
    \/ LazyFinish(t)
    \/ LazyGet(t)
    \/ LoadConst(t)
    \/ TempMetadata(t)
    \/ TempResolve(t)
    \/ TempAssemble(t)

FairSpec == Spec /\ \A t \in Threads : WF_vars(Step(t))

\* ----------------------------------------------------- resolver harness
\* The two resolvers applied to one input: any byte sequence up to MaxLen,
\* or any such sequence wrapped in a container.
ResolveInit ==
    /\ LoaderIdle
    /\ compress = TRUE
    /\ embed = TRUE
    /\ files = [a \in Artifacts |-> Blob(a, BaseKind(a))]
    /\ metaFile = <<1, 0>>
    /\ payload \in ByteSeqs
    /\ wrapped \in BOOLEAN
    /\ input = IF wrapped THEN Wrap(payload) ELSE payload
    /\ cellOut = <<>>
    /\ fnOut = <<>>
    /\ ran = {}

\* A cell whose embedded bytes are `input` is forced.
RunCellInitializer ==
    /\ "cell" \notin ran
    /\ cellOut' = decompress_data(input)
    /\ ran' = ran \cup {"cell"}
    /\ UNCHANGED <<config, cell, threadVars, ghostVars, input, payload, wrapped, fnOut>>

RunDecompressEmbedded ==
    /\ "fn" \notin ran
    /\ fnOut' = decompress_embedded_data(input)
    /\ ran' = ran \cup {"fn"}
    /\ UNCHANGED <<config, cell, threadVars, ghostVars, input, payload, wrapped, cellOut>>

ResolveNext == RunCellInitializer \/ RunDecompressEmbedded

SpecResolve == ResolveInit /\ [][ResolveNext]_vars

\* ================================================================ claims
\* The bytes each path parses, as functions of the embedded inputs alone.
CachedBytes(a) ==
    IF compress THEN decompress_data(EmbeddedBytes(a)) ELSE EmbeddedBytes(a)
EphemeralBytes(a) ==
    IF compress THEN decompress_embedded_data(IncludedBytes(a)) ELSE IncludedBytes(a)

\* The first structural parse failure in the order metadata, character
\* definition, unknown dictionary; "none" when all three parse.
FirstError(cdBytes, udBytes) ==
    IF ~MetadataLoad(METADATA_DATA).ok THEN MetadataLoad(METADATA_DATA).err
    ELSE IF ~CharacterDefinitionLoad(cdBytes).ok
         THEN CharacterDefinitionLoad(cdBytes).err
    ELSE IF ~UnknownDictionaryLoad(udBytes).ok
         THEN UnknownDictionaryLoad(udBytes).err
    ELSE "none"

Populated(d) ==
    /\ d.prefix_dictionary.kind = "prefix_dictionary"
    /\ d.connection_cost_matrix.kind = "connection_cost_matrix"
    /\ d.character_definition.kind = "character_definition"
    /\ d.unknown_dictionary.kind = "unknown_dictionary"
    /\ d.metadata.kind = "metadata"

AllIdle == \A t \in Threads : op[t] = "none"
SameInputs == \A a \in Artifacts : EmbeddedBytes(a) = IncludedBytes(a)

\* C1: equivalence.  When both paths are given the same embedded bytes,
\* every value load() has returned equals every value load_temporary() has
\* returned (the same Dictionary or the same error), whatever calls came
\* before.
C1_Equivalence ==
    SameInputs =>
        \A r \in loadResults : \A s \in tempResults : r = s

\* Both paths have returned a Dictionary built from compressed artifacts.
C1_Witness ==
    /\ compress
    /\ SameInputs
    /\ \E r \in loadResults : r.ok /\ r \in tempResults
    /\ nLoad + nTemp = MaxCalls
    /\ AllIdle

\* C2: single computation.  No cell's initializer runs more than once, and
\* a cell that holds resolved bytes keeps them unchanged from then on.
C2_SingleComputation ==
    /\ [](\A a \in Artifacts : cell[a].count <= 1)
    /\ [][\A a \in Artifacts : cell[a].state = "done" => cell'[a] = cell[a]]_vars

\* More load() calls than threads have returned (so two were sequential in
\* one thread) and every cell was resolved once.
C2_Witness ==
    /\ compress
    /\ AllIdle
    /\ nLoad > NThreads
    /\ \A a \in Artifacts : cell[a].state = "done" /\ cell[a].count = 1

\* C3: cold concurrent load.  When every thread's load() began on an empty
\* cache and all have returned, the results are equal, no initializer ran
\* twice, and if the calls returned a Dictionary each of the seven
\* initializers ran exactly once.
C3_ColdConcurrentLoad ==
    (compress /\ AllIdle /\ \A t \in Threads : cold[t]) =>
        /\ \A t, u \in Threads : result[t] = result[u]
        /\ \A a \in Artifacts : cell[a].count <= 1
        /\ \A t \in Threads :
              result[t].ok => \A a \in Artifacts : cell[a].count = 1

\* All threads began load() on an empty cache and all got a Dictionary.
C3_Witness ==
    /\ compress
    /\ AllIdle
    /\ \A t \in Threads : cold[t] /\ result[t].ok
    /\ \A a \in Artifacts : cell[a].count = 1

\* C4: at-most-once initialization.  A cell whose initializer has been
\* started is never started again, and every load() that has passed a cell
\* holds the bytes the cell stores.
C4_InitializedOnce ==
    /\ [][\A a \in Artifacts :
             cell[a].state # "uninit" => cell'[a].count = cell[a].count]_vars
    /\ [](\A t \in Threads : \A k \in 1..7 :
             (compress /\ op[t] = "load" /\ k < pc[t]) =>
                 /\ cell[LoadOrder[k]].state = "done"
                 /\ loc[t][LoadOrder[k]] = cell[LoadOrder[k]].value)

\* Two threads began load() on an empty cache, one initialized the first
\* cell and both went past it with the same bytes.
C4_Witness ==
    /\ compress
    /\ \A t \in Threads : cold[t] /\ op[t] = "load" /\ pc[t] = 2
    /\ cell["DA_DATA"].count = 1
    /\ cell["DA_DATA"].value # EmbeddedBytes("DA_DATA")

\* C8 as claimed: with embedding disabled every load() fails with the
\* character-definition or the unknown-dictionary parse error.
C8_AsClaimed ==
    ~embed =>
        \A r \in loadResults :
            /\ ~r.ok
            /\ r.err \in {"CharacterDefinitionParseError", "UnknownDictionaryParseError"}

\* C8 (amended): with embedding disabled the metadata placeholder is empty
\* too and is parsed first, so every load() fails with the metadata parse
\* error; it never returns a Dictionary.
C8_DisabledEmbeddingFails ==
    ~embed =>
        \A r \in loadResults : ~r.ok /\ r.err = "MetadataParseError"

\* load() has returned in a build without embedded data.
C8_Witness ==
    /\ ~embed
    /\ loadResults # {}
    /\ nLoad >= 2
    /\ AllIdle

ResultShape(r, e) ==
    IF e = "none"
    THEN r.ok /\ r.err = "none" /\ Populated(r.dict)
    ELSE ~r.ok /\ r.err = e /\ r.dict = NoParts

\* C9: failure policy.  Every value either path returns is the error of
\* the first failing parse (metadata, character definition, unknown
\* dictionary) with no Dictionary, or, when none fails, a Dictionary with
\* all five components populated.
C9_FirstFailureOrWhole ==
    /\ \A r \in loadResults :
          ResultShape(r, FirstError(CachedBytes("CHAR_DEFINITION_DATA"),
                                    CachedBytes("UNKNOWN_DATA")))
    /\ \A r \in tempResults :
          ResultShape(r, FirstError(EphemeralBytes("CHAR_DEFINITION_DATA"),
                                    EphemeralBytes("UNKNOWN_DATA")))

\* Both paths have returned the character-definition error on inputs whose
\* unknown dictionary is invalid as well.
C9_Witness ==
    /\ \E r \in loadResults : r.err = "CharacterDefinitionParseError"
    /\ \E r \in tempResults : r.err = "CharacterDefinitionParseError"
    /\ ~UnknownDictionaryLoad(CachedBytes("UNKNOWN_DATA")).ok
    /\ ~UnknownDictionaryLoad(EphemeralBytes("UNKNOWN_DATA")).ok

\* What load() returns from the embedded inputs when nothing else runs.
LoadReference ==
    LET e == FirstError(CachedBytes("CHAR_DEFINITION_DATA"), CachedBytes("UNKNOWN_DATA"))
    IN  IF e # "none" THEN Err(e)
        ELSE Ok([prefix_dictionary |->
                     PrefixDictionaryLoad(CachedBytes("DA_DATA"), CachedBytes("VALS_DATA"),
                                          CachedBytes("WORDS_IDX_DATA"),
                                          CachedBytes("WORDS_DATA")),
                 connection_cost_matrix |->
                     ConnectionCostMatrixLoad(CachedBytes("CONNECTION_DATA")),
                 character_definition |->
                     CharacterDefinitionLoad(CachedBytes("CHAR_DEFINITION_DATA")).val,
                 unknown_dictionary |->
                     UnknownDictionaryLoad(CachedBytes("UNKNOWN_DATA")).val,
                 metadata |-> MetadataLoad(METADATA_DATA).val])

TempStep ==
    \E t \in Threads :
        /\ op[t] = "load_temporary" \/ op'[t] = "load_temporary"
        /\ op'[t] # op[t] \/ pc'[t] # pc[t]

\* C10: frame of load_temporary().  No step of a load_temporary() call
\* changes any cell, and load() returns what it returns when no
\* load_temporary() runs, under every interleaving.
C10_TemporaryLeavesCells ==
    /\ [][TempStep => cell' = cell]_vars
    /\ [](loadResults \subseteq {LoadReference})

\* A load_temporary() has resolved all seven artifacts while a load() is in
\* the middle of the cells and the last cells are still empty.
C10_Witness ==
    /\ compress
    /\ \E t, u \in Threads :
          /\ op[t] = "load" /\ pc[t] = 3
          /\ op[u] = "load_temporary" /\ pc[u] = 8
    /\ cell["CHAR_DEFINITION_DATA"].state = "uninit"

BothRan == ran = {"cell", "fn"}

\* C5: round trip.  When the input is a payload P wrapped in a compressed
\* container, the cell initializer and decompress_embedded_data each return
\* exactly P.
C5_RoundTrip ==
    wrapped =>
        /\ "cell" \in ran => cellOut = payload
        /\ "fn" \in ran => fnOut = payload

\* A wrapped payload of two runs has been resolved by both resolvers.
C5_Witness ==
    /\ BothRan
    /\ wrapped
    /\ Len(payload) >= 3
    /\ payload[1] # payload[2]
    /\ input = Wrap(payload)
    /\ cellOut = payload
    /\ fnOut = payload

\* C6: pass-through.  When the input does not deserialize as a container
\* (the empty sequence included), both resolvers return the input.
C6_PassThrough ==
    ~from_bytes(input).ok =>
        /\ "cell" \in ran => cellOut = input
        /\ "fn" \in ran => fnOut = input

\* A non-empty input that starts with the container tag, yet is no
\* container, has been resolved by both resolvers.
C6_Witness ==
    /\ BothRan
    /\ Len(input) >= 2
    /\ input[1] = ContainerTag
    /\ ~from_bytes(input).ok
    /\ fnOut = input

\* C7: the resolver is total with two outcomes only.  Whatever the input,
\* decompress_embedded_data returns a byte sequence that is either the input
\* itself or the payload its container decompresses to.
C7_TotalTwoOutcomes ==
    "fn" \in ran =>
        /\ fnOut \in Seq(Nat)
        /\ \/ fnOut = input
           \/ /\ from_bytes(input).ok
              /\ decompress(from_bytes(input)).ok
              /\ fnOut = decompress(from_bytes(input)).val

\* A container has been resolved to a payload that differs from the input.
C7_Witness ==
    /\ "fn" \in ran
    /\ from_bytes(input).ok
    /\ fnOut # input
    /\ fnOut # <<>>

\* The input deserializes as a container whose payload does not decompress.
CorruptContainer(b) == from_bytes(b).ok /\ ~decompress(from_bytes(b)).ok

\* C11: decompression-failure fallback.  When the input deserializes as a
\* container but its payload fails to decompress, the cell initializer and
\* decompress_embedded_data each return the input bytes unchanged.
C11_FallbackOnCorrupt ==
    CorruptContainer(input) =>
        /\ "cell" \in ran => cellOut = input
        /\ "fn" \in ran => fnOut = input

\* A corrupt container with a non-empty payload went through both resolvers.
C11_Witness ==
    /\ BothRan
    /\ CorruptContainer(input)
    /\ from_bytes(input).data # <<>>
    /\ cellOut = input
    /\ fnOut = input

\* C17: the two copies of the resolver agree.  For every input the bytes
\* the cell initializer stores equal the bytes decompress_embedded_data
\* returns: the payload when the container decompresses, the input when
\* decompression fails, the input when it is no container.
C17_ResolversAgree ==
    BothRan =>
        /\ cellOut = fnOut
        /\ cellOut = IF ~from_bytes(input).ok THEN input
                     ELSE IF CorruptContainer(input) THEN input
                     ELSE decompress(from_bytes(input)).val

\* A raw input that happens to be a well-formed container was decompressed
\* by both copies.
C17_Witness ==
    /\ BothRan
    /\ ~wrapped
    /\ from_bytes(input).ok
    /\ ~CorruptContainer(input)
    /\ cellOut = fnOut
    /\ cellOut # input
    /\ Len(cellOut) >= 2

MetadataFails == ~MetadataLoad(METADATA_DATA).ok
AllResults == loadResults \cup tempResults

\* C12: metadata first.  In both paths the first step of a call is the
\* metadata parse and nothing is resolved before it; when the metadata does
\* not parse, every call returns the metadata error after that single step,
\* no cell is ever initialized and decompress_embedded_data never runs.
C12_MetadataFirst ==
    /\ \A t \in Threads :
          /\ trace[t] # <<>> => trace[t][1] = <<"parse", "metadata">>
          /\ (op[t] # "none" /\ pc[t] = 0) => (loc[t] = NoBytes /\ trace[t] = <<>>)
          /\ pc[t] >= 1 => parts[t].metadata.kind = "metadata"
    /\ MetadataFails =>
          /\ \A a \in Artifacts : cell[a] = UninitCell
          /\ tempResolves = 0
          /\ \A r \in AllResults : r = Err("MetadataParseError")
          /\ \A t \in Threads : Len(trace[t]) <= 1 /\ loc[t] = NoBytes

\* With embedded artifacts and a metadata file that does not parse, both
\* paths have returned and every cell is still empty.
C12_Witness ==
    /\ compress
    /\ embed
    /\ MetadataFails
    /\ loadResults # {}
    /\ tempResults # {}
    /\ AllIdle
    /\ \A a \in Artifacts : cell[a].state = "uninit"

\* The resolver falls back to the raw bytes of b.
FallsBack(b) == ~from_bytes(b).ok \/ CorruptContainer(b)

PrefixAndMatrix ==
    {"DA_DATA", "VALS_DATA", "WORDS_IDX_DATA", "WORDS_DATA", "CONNECTION_DATA"}

\* The bytes of artifact a inside a returned Dictionary.
BytesIn(d, a) ==
    IF a = "CONNECTION_DATA" THEN d.connection_cost_matrix.body
    ELSE d.prefix_dictionary.body[Idx(a)]

\* C13: error kinds.  Every error either path returns is the metadata, the
\* character-definition or the unknown-dictionary parse error; whenever
\* those three parse, the call returns a Dictionary, and each prefix
\* dictionary or matrix artifact that is no container, or a corrupt one,
\* is in it as its raw embedded bytes.
C13_ErrorKinds ==
    /\ \A r \in AllResults :
          ~r.ok => r.err \in {"MetadataParseError", "CharacterDefinitionParseError",
                              "UnknownDictionaryParseError"}
    /\ compress =>
          /\ \A r \in loadResults :
                FirstError(CachedBytes("CHAR_DEFINITION_DATA"),
                           CachedBytes("UNKNOWN_DATA")) = "none" =>
                    /\ r.ok
                    /\ \A a \in PrefixAndMatrix :
                          FallsBack(EmbeddedBytes(a)) =>
                              BytesIn(r.dict, a) = EmbeddedBytes(a)
          /\ \A r \in tempResults :
                FirstError(EphemeralBytes("CHAR_DEFINITION_DATA"),
                           EphemeralBytes("UNKNOWN_DATA")) = "none" =>
                    /\ r.ok
                    /\ \A a \in PrefixAndMatrix :
                          FallsBack(IncludedBytes(a)) =>
                              BytesIn(r.dict, a) = IncludedBytes(a)

\* Both paths returned a Dictionary although the trie index is a corrupt
\* container.
C13_Witness ==
    /\ compress
    /\ embed
    /\ CorruptContainer(files["DA_DATA"])
    /\ \E r \in loadResults : r.ok /\ BytesIn(r.dict, "DA_DATA") = files["DA_DATA"]
    /\ \E r \in tempResults : r.ok /\ BytesIn(r.dict, "DA_DATA") = files["DA_DATA"]

\* Resolver runs of the load_temporary() call thread t is in, so far.
TempRunsOf(t) == IF op[t] = "load_temporary" /\ pc[t] >= 1 THEN pc[t] - 1 ELSE 0

RECURSIVE TempRunsUpTo(_)
TempRunsUpTo(n) == IF n = 0 THEN 0 ELSE TempRunsOf(n) + TempRunsUpTo(n - 1)

TempsReturned == nTemp - Cardinality({t \in Threads : op[t] = "load_temporary"})

\* C14: no memoization in load_temporary().  In the compress build with
\* metadata that parses, decompress_embedded_data has run seven times for
\* every load_temporary() that has returned, plus once per artifact already
\* resolved by the calls in progress, whatever load() calls came before.
C14_NeverMemoizes ==
    (compress /\ ~MetadataFails) =>
        tempResolves = Len(TempOrder) * TempsReturned + TempRunsUpTo(NThreads)

\* Two load_temporary() calls returned after a load() had filled the cells.
C14_Witness ==
    /\ compress
    /\ AllIdle
    /\ nLoad >= 1
    /\ nTemp >= 2
    /\ \A a \in Artifacts : cell[a].state = "done"
    /\ tempResolves = Len(TempOrder) * nTemp

ParseSteps(tr) == SelectSeq(tr, LAMBDA e : e[1] = "parse")
ByteSteps(tr) == SelectSeq(tr, LAMBDA e : e[1] = "bytes")
StepSet(tr) == {tr[i] : i \in 1..Len(tr)}

\* Thread t's last call was a load() begun with every cell empty.
ColdLoadReturned(t) == cold[t] /\ op[t] = "none" /\ result[t] # NoResult
\* Thread u returns from load_temporary() in this step.
TempReturns(u) == op[u] = "load_temporary" /\ op'[u] = "none"

\* C15 as claimed: a load_temporary() that returns has gone through exactly
\* the steps, in the same order, of a load() that ran on a cold cache.
C15_AsClaimed ==
    [][\A t, u \in Threads :
          (ColdLoadReturned(t) /\ TempReturns(u)) => trace'[u] = trace[t]]_vars

\* C15 (amended): a load_temporary() that returns has made the same parses
\* in the same order and returns the same value as a load() that ran on a
\* cold cache, and has resolved every artifact that load() resolved; the
\* order of the resolutions is not the same.
C15_SameParsesSameResult ==
    [][\A t, u \in Threads :
          (ColdLoadReturned(t) /\ TempReturns(u)) =>
              /\ ParseSteps(trace'[u]) = ParseSteps(trace[t])
              /\ result'[u] = result[t]
              /\ StepSet(ByteSteps(trace[t])) \subseteq StepSet(ByteSteps(trace'[u]))
              /\ result[t].ok =>
                    StepSet(ByteSteps(trace[t])) = StepSet(ByteSteps(trace'[u]))]_vars

\* One load() on a cold cache and one load_temporary() both returned a
\* Dictionary, with the same parses and different step sequences.
C15_Witness ==
    /\ compress
    /\ nLoad = 1
    /\ \E t, u \in Threads :
          /\ ColdLoadReturned(t)
          /\ result[t].ok
          /\ op[u] = "none" /\ ~cold[u] /\ result[u].ok
          /\ ParseSteps(trace[u]) = ParseSteps(trace[t])
          /\ ByteSteps(trace[u]) # ByteSteps(trace[t])

\* The metadata parses and the resolved character definition does not.
CharDefFails ==
    /\ ~MetadataFails
    /\ ~CharacterDefinitionLoad(CachedBytes("CHAR_DEFINITION_DATA")).ok

\* C18: cells in load() order.  A cell is initialized only after the cells
\* before it in the order trie index, trie values, word index, word
\* surface, matrix, character definition, unknown dictionary.  When the
\* character definition does not parse, the unknown-dictionary cell is
\* never initialized, and once a load() has returned the six earlier cells
\* are initialized, each resolved once however many load() calls follow,
\* and every load() returns the character-definition error.
C18_CellsInOrder ==
    compress =>
        /\ \A k \in 2..7 :
              cell[LoadOrder[k]].state # "uninit" => cell[LoadOrder[k - 1]].state = "done"
        /\ CharDefFails =>
              /\ cell["UNKNOWN_DATA"] = UninitCell
              /\ loadResults # {} =>
                    /\ loadResults = {Err("CharacterDefinitionParseError")}
                    /\ \A k \in 1..6 :
                          /\ cell[LoadOrder[k]].state = "done"
                          /\ cell[LoadOrder[k]].count = 1

\* More load() calls than threads have returned the character-definition
\* error; six cells are initialized once and the last one is empty.
C18_Witness ==
    /\ compress
    /\ CharDefFails
    /\ AllIdle
    /\ nLoad > NThreads
    /\ loadResults = {Err("CharacterDefinitionParseError")}
    /\ cell["UNKNOWN_DATA"].state = "uninit"
    /\ \A k \in 1..6 : cell[LoadOrder[k]].count = 1

\* C16: termination.  While any call is in progress some thread in a call
\* can take a step (no deadlock among the cells), and under fair scheduling
\* of the threads every call that has started returns.
C16_EveryCallReturns ==
    /\ []((\E t \in Threads : op[t] # "none") => \E t \in Threads : ENABLED Step(t))
    /\ \A t \in Threads : (op[t] # "none") ~> (op[t] = "none")

\* Every thread is in load() on a cold cache, and all but the one that
\* runs the first cell's initializer are waiting for it.
C16_Witness ==
    /\ compress
    /\ \A t \in Threads : cold[t] /\ op[t] = "load" /\ pc[t] = 1
    /\ cell["DA_DATA"].state = "running"
    /\ \E t \in Threads : cell["DA_DATA"].owner = t
====
